---------------------------- MODULE Spec2Model ----------------------------
(***************************************************************************)
(* A model of the recipe-generator front end, src/public/app.js: the       *)
(* RecipeGenerator controller (ingredient list, equipment selection, form  *)
(* validation, the generate request and its outcomes, the display of a     *)
(* recipe, the error banner and its auto-hide timers) and the page-level   *)
(* handlers (resetForm, keyboard shortcuts, online / offline).             *)
(*                                                                         *)
(* Text that the code trims or parses (the ingredient input, the           *)
(* cookingTime and servings fields) is a sequence of one-character         *)
(* strings, so that trim() and parseInt() are computed.  Other text is a   *)
(* TLA+ string.  A JavaScript number is a record [nan, val].               *)
(***************************************************************************)
EXTENDS Integers, Sequences, FiniteSets, Bags, TLC

VARIABLES
    ingredients,          \* this.ingredients
    ingredientInput,      \* #ingredientInput .value
    selectedEquipment,    \* this.selectedEquipment
    catalog,              \* the names of the .equipment-item elements of #equipmentGrid
    checked,              \* checked[i]: the checkbox of item i is checked
    itemSelected,         \* itemSelected[i]: item i carries the class 'selected'
    cookingTime,          \* #cookingTime .value
    servings,             \* #servings .value
    difficulty,           \* #difficulty .value
    cuisine,              \* #cuisine .value
    mealType,             \* #mealType .value
    dietaryRestrictions,  \* #dietaryRestrictions .value
    selectOptions,        \* the options appended to the three selects
    loadPc,               \* the position of loadDropdownOptions
    btnDisabled,          \* #generateBtn .disabled
    btnLoading,           \* #generateBtn carries the class 'loading'
    formDisplay,          \* .form-container style.display
    resultHidden,         \* #recipeResult carries the class 'hidden'
    display,              \* the contents of the elements of #recipeResult
    errorHidden,          \* #errorMessage carries the class 'hidden'
    errorText,            \* #errorText .textContent
    hideTimers,           \* the pending setTimeout(hideError) callbacks, oldest
                          \* first: the time units left until each is due
    inflight              \* the bag of the generate requests sent and not yet
                          \* answered: the payload of each, and whether
                          \* resetForm has run since it was sent

selectionVars == <<ingredients, ingredientInput, selectedEquipment, catalog,
                   checked, itemSelected>>
fieldVars == <<cookingTime, servings, difficulty, cuisine, mealType,
               dietaryRestrictions>>
loadVars == <<selectOptions, loadPc>>
viewVars == <<btnDisabled, btnLoading, formDisplay, resultHidden, display>>
errorVars == <<errorHidden, errorText, hideTimers>>

vars == <<selectionVars, fieldVars, loadVars, viewVars, errorVars, inflight>>

---------------------------------------------------------------------------
(* Bounds of the exploration. *)

\* No more than MaxIngredients tags are added.
MaxIngredients == 3
\* No more than MaxInFlight generate requests are outstanding.
MaxInFlight == 2
\* No more than MaxTimers hide-error timers are pending.
MaxTimers == 2

---------------------------------------------------------------------------
(* Text. *)

Digits == <<"0", "1", "2", "3", "4", "5", "6", "7", "8", "9">>

IsWhitespace(c) == c \in {" ", "\t", "\n"}

IsDigit(c) == \E d \in 1..Len(Digits) : Digits[d] = c

DigitValue(c) == (CHOOSE d \in 1..Len(Digits) : Digits[d] = c) - 1

RECURSIVE TrimStart(_)
TrimStart(s) ==
    IF s # <<>> /\ IsWhitespace(Head(s)) THEN TrimStart(Tail(s)) ELSE s

RECURSIVE TrimEnd(_)
TrimEnd(s) ==
    IF s # <<>> /\ IsWhitespace(s[Len(s)])
    THEN TrimEnd(SubSeq(s, 1, Len(s) - 1))
    ELSE s

\* String.prototype.trim
Trim(s) == TrimEnd(TrimStart(s))

\* Array.prototype.includes
Includes(list, x) == \E i \in 1..Len(list) : list[i] = x

\* Array.prototype.filter(e => e !== x)
RECURSIVE FilterOut(_, _)
FilterOut(list, x) ==
    IF list = <<>> THEN <<>>
    ELSE IF Head(list) = x THEN FilterOut(Tail(list), x)
    ELSE <<Head(list)>> \o FilterOut(Tail(list), x)

\* Array.prototype.join
RECURSIVE Join(_, _)
Join(list, sep) ==
    IF list = <<>> THEN ""
    ELSE IF Len(list) = 1 THEN list[1]
    ELSE list[1] \o sep \o Join(Tail(list), sep)

---------------------------------------------------------------------------
(* Numbers. *)

NaN == [nan |-> TRUE, val |-> 0]

Num(n) == [nan |-> FALSE, val |-> n]

\* The value of the longest prefix of decimal digits of s, read after acc.
RECURSIVE DigitsPrefix(_, _)
DigitsPrefix(s, acc) ==
    IF s # <<>> /\ IsDigit(Head(s))
    THEN DigitsPrefix(Tail(s), 10 * acc + DigitValue(Head(s)))
    ELSE acc

\* parseInt(text) with no radix: leading white space is skipped, a sign is
\* read, then the longest prefix of decimal digits; NaN when there is none.
\* (The texts explored carry no 0x prefix.)
parseInt(text) ==
    LET s == TrimStart(text)
        signed == s # <<>> /\ Head(s) \in {"-", "+"}
        body == IF signed THEN Tail(s) ELSE s
        magnitude == DigitsPrefix(body, 0)
    IN  IF body = <<>> \/ ~IsDigit(Head(body)) THEN NaN
        ELSE IF signed /\ Head(s) = "-" THEN Num(0 - magnitude)
        ELSE Num(magnitude)

\* a < n and a > n for a number a and an integer n: false when a is NaN.
JsLess(a, n) == ~a.nan /\ a.val < n

JsGreater(a, n) == ~a.nan /\ a.val > n

---------------------------------------------------------------------------
(* What the server answers, and what the page starts with. *)

NoValue == "undefined"

CuisineData == <<"Italian", "Thai">>
MealTypeData == <<"Dinner">>
DietaryData == <<"Vegan">>
\* GET /api/recipes/equipment: the catalog
EquipmentData == <<"Oven", "Blender">>

ChickenBreast == <<"c", "h", "i", "c", "k", "e", "n", " ", "b", "r", "e", "a", "s", "t">>
Rice == <<"r", "i", "c", "e">>
Broccoli == <<"b", "r", "o", "c", "c", "o", "l", "i">>
Egg == <<"e", "g", "g">>

\* The sample ingredients of ?demo=true.
DemoIngredients == <<ChickenBreast, Rice, Broccoli>>

MsgIngredients == "Please add at least one ingredient"
MsgCookingTime == "Cooking time must be between 5 and 480 minutes"
MsgServings == "Servings must be between 1 and 20"
MsgLoadFailed == "Failed to load options. Please refresh the page."
MsgGenerateFailed == "Failed to generate recipe"
MsgGenerateRetry == "Failed to generate recipe. Please try again."
MsgOffline == "Network connection lost. Please check your internet connection."

\* The elements of #recipeResult before the first recipe is displayed.
NoDisplay ==
    [title |-> "", description |-> "", totalTime |-> "", servings |-> "",
     difficulty |-> "", cuisine |-> "", ingredients |-> <<>>, equipment |-> <<>>,
     instructions |-> <<>>, tips |-> <<>>, nutrition |-> <<>>, storage |-> "",
     variations |-> <<>>]

\* The page as the constructor leaves it: both lists empty, the option
\* requests started, the form shown with its default field values, no
\* result and no error shown.  With ?demo=true the DOMContentLoaded handler
\* then sets the three sample ingredients.
InitPage(demo) ==
    /\ ingredients = IF demo THEN DemoIngredients ELSE <<>>
    /\ ingredientInput = <<>>
    /\ selectedEquipment = <<>>
    /\ catalog = <<>>
    /\ checked = <<>>
    /\ itemSelected = <<>>
    /\ cookingTime = <<"3", "0">>
    /\ servings = <<"4">>
    /\ difficulty = "Medium"
    /\ cuisine = ""
    /\ mealType = ""
    /\ dietaryRestrictions = ""
    /\ selectOptions = [cuisine |-> <<>>, mealType |-> <<>>, dietaryRestrictions |-> <<>>]
    /\ loadPc = "cuisines"
    /\ btnDisabled = FALSE
    /\ btnLoading = FALSE
    /\ formDisplay = ""
    /\ resultHidden = TRUE
    /\ display = NoDisplay
    /\ errorHidden = TRUE
    /\ errorText = ""
    /\ hideTimers = <<>>
    /\ inflight = EmptyBag

\* The page loaded without, and with, ?demo=true.
Init == InitPage(FALSE)

InitDemo == InitPage(TRUE)

---------------------------------------------------------------------------
(* The error banner and the button. *)

\* The delay of the auto-hide timer: 8000 ms, in units of one second.
HideDelay == 8

\* showError without the setTimeout.
showErrorNoTimer(message) ==
    /\ Len(hideTimers) < MaxTimers
    /\ errorText' = message
    /\ errorHidden' = FALSE
    /\ hideTimers' = hideTimers

showError(message) ==
    /\ Len(hideTimers) < MaxTimers
    /\ errorText' = message
    /\ errorHidden' = FALSE
    /\ hideTimers' = Append(hideTimers, HideDelay)

hideError ==
    /\ errorHidden' = TRUE
    /\ UNCHANGED <<errorText, hideTimers>>

setLoadingState(loading) ==
    /\ btnDisabled' = loading
    /\ btnLoading' = loading

\* One time unit passes.  Time does not pass a due timer: its callback runs
\* first.  (With no timer pending the passing of time changes nothing.)
Tick ==
    /\ hideTimers # <<>>
    /\ \A i \in 1..Len(hideTimers) : hideTimers[i] > 0
    /\ hideTimers' = [i \in 1..Len(hideTimers) |-> hideTimers[i] - 1]
    /\ UNCHANGED <<errorHidden, errorText, selectionVars, fieldVars, loadVars,
                   viewVars, inflight>>

\* The callback of the oldest timer showError started, when it is due.
HideTimerFires ==
    /\ hideTimers # <<>>
    /\ Head(hideTimers) = 0
    /\ hideTimers' = Tail(hideTimers)
    /\ errorHidden' = TRUE
    /\ UNCHANGED <<errorText, selectionVars, fieldVars, loadVars, viewVars, inflight>>

\* The time left of the oldest timer passes and its callback runs: Tick
\* until it is due, then HideTimerFires, as one step.
HideTimerElapses ==
    /\ hideTimers # <<>>
    /\ hideTimers' = [i \in 1..(Len(hideTimers) - 1) |->
                         hideTimers[i + 1] - Head(hideTimers)]
    /\ errorHidden' = TRUE
    /\ UNCHANGED <<errorText, selectionVars, fieldVars, loadVars, viewVars, inflight>>

---------------------------------------------------------------------------
(* loadDropdownOptions: four requests, one after the other, in one try. *)

LoadSteps == <<"cuisines", "meal-types", "dietary-restrictions", "equipment">>

NextLoadStep(pc) ==
    IF pc = "cuisines" THEN "meal-types"
    ELSE IF pc = "meal-types" THEN "dietary-restrictions"
    ELSE IF pc = "dietary-restrictions" THEN "equipment"
    ELSE "done"

\* populateSelect(selectId, options)
populateSelect(selectId, options) ==
    selectOptions' = [selectOptions EXCEPT ![selectId] = @ \o options]

\* populateEquipmentGrid(equipmentList): one item, with an unchecked
\* checkbox, for each name.
populateEquipmentGrid(equipmentList) ==
    /\ catalog' = catalog \o equipmentList
    /\ checked' = checked \o [i \in 1..Len(equipmentList) |-> FALSE]
    /\ itemSelected' = itemSelected \o [i \in 1..Len(equipmentList) |-> FALSE]

\* The awaited request of the current step is answered with its list.
LoadOptionsOk ==
    /\ \E k \in 1..Len(LoadSteps) : loadPc = LoadSteps[k]
    /\ loadPc' = NextLoadStep(loadPc)
    /\ IF loadPc = "cuisines"
       THEN populateSelect("cuisine", CuisineData)
            /\ UNCHANGED <<catalog, checked, itemSelected>>
       ELSE IF loadPc = "meal-types"
       THEN populateSelect("mealType", MealTypeData)
            /\ UNCHANGED <<catalog, checked, itemSelected>>
       ELSE IF loadPc = "dietary-restrictions"
       THEN populateSelect("dietaryRestrictions", DietaryData)
            /\ UNCHANGED <<catalog, checked, itemSelected>>
       ELSE populateEquipmentGrid(EquipmentData)
            /\ UNCHANGED selectOptions
    /\ UNCHANGED <<ingredients, ingredientInput, selectedEquipment, fieldVars,
                   viewVars, errorVars, inflight>>

\* The awaited request of the current step fails: the catch block ends the
\* whole function.
LoadOptionsFail ==
    /\ \E k \in 1..Len(LoadSteps) : loadPc = LoadSteps[k]
    /\ loadPc' = "failed"
    /\ showError(MsgLoadFailed)
    /\ UNCHANGED <<selectOptions, selectionVars, fieldVars, viewVars, inflight>>

---------------------------------------------------------------------------
(* The ingredient list. *)

\* The user can reach the form's controls while the form container is shown.
FormShown == formDisplay # "none"

\* The user edits the ingredient input.
TypeIngredient(texts) ==
    /\ FormShown
    /\ \E text \in texts : ingredientInput' = text
    /\ ingredientInput' # ingredientInput
    /\ UNCHANGED <<ingredients, selectedEquipment, catalog, checked, itemSelected,
                   fieldVars, loadVars, viewVars, errorVars, inflight>>

\* addIngredient without the includes() test.
addIngredientNoDedup ==
    LET ingredient == Trim(ingredientInput)
    IN  IF ingredient # <<>>
        THEN /\ ingredients' = Append(ingredients, ingredient)
             /\ ingredientInput' = <<>>
        ELSE UNCHANGED <<ingredients, ingredientInput>>

\* addIngredient without trim().
addIngredientNoTrim ==
    LET ingredient == ingredientInput
    IN  IF ingredient # <<>> /\ ~Includes(ingredients, ingredient)
        THEN /\ ingredients' = Append(ingredients, ingredient)
             /\ ingredientInput' = <<>>
        ELSE UNCHANGED <<ingredients, ingredientInput>>

\* addIngredient(): an empty string is falsy.
addIngredient ==
    LET ingredient == Trim(ingredientInput)
    IN  IF ingredient # <<>> /\ ~Includes(ingredients, ingredient)
        THEN /\ ingredients' = Append(ingredients, ingredient)
             /\ ingredientInput' = <<>>
        ELSE UNCHANGED <<ingredients, ingredientInput>>

\* The add button is clicked, or Enter is pressed in the ingredient input.
AddIngredient ==
    /\ FormShown
    /\ addIngredient
    /\ Len(ingredients') <= MaxIngredients
    /\ UNCHANGED <<selectedEquipment, catalog, checked, itemSelected,
                   fieldVars, loadVars, viewVars, errorVars, inflight>>

\* removeIngredient with the filter's test inverted.
removeIngredientInverted(ingredient) ==
    ingredients' = SelectSeq(ingredients, LAMBDA ing : ing = ingredient)

\* removeIngredient(ingredient)
removeIngredient(ingredient) ==
    ingredients' = FilterOut(ingredients, ingredient)

\* The remove button of a tag is clicked (the name of a tag), or
\* recipeGenerator.removeIngredient is called with one of `names`.
RemoveIngredient(names) ==
    /\ FormShown
    /\ \E ingredient \in names \cup {ingredients[i] : i \in 1..Len(ingredients)} :
          removeIngredient(ingredient)
    /\ UNCHANGED <<ingredientInput, selectedEquipment, catalog, checked, itemSelected,
                   fieldVars, loadVars, viewVars, errorVars, inflight>>

---------------------------------------------------------------------------
(* The equipment selection. *)

\* updateEquipmentSelection without the includes() test.
updateEquipmentSelectionNoTest(st, i) ==
    IF st.checked[i]
    THEN [st EXCEPT !.itemSelected[i] = TRUE,
                    !.selectedEquipment = Append(@, catalog[i])]
    ELSE [st EXCEPT !.itemSelected[i] = FALSE,
                    !.selectedEquipment = FilterOut(@, catalog[i])]

\* updateEquipmentSelection(item, equipment) on the state st =
\* [checked, itemSelected, selectedEquipment], for the item at position i.
updateEquipmentSelection(st, i) ==
    IF st.checked[i]
    THEN [st EXCEPT !.itemSelected[i] = TRUE,
                    !.selectedEquipment =
                        IF ~Includes(@, catalog[i]) THEN Append(@, catalog[i]) ELSE @]
    ELSE [st EXCEPT !.itemSelected[i] = FALSE,
                    !.selectedEquipment = FilterOut(@, catalog[i])]

ToggleChecked(st, i) == [st EXCEPT !.checked[i] = ~@]

\* The click handler of item i without its updateEquipmentSelection call.
itemClickNoUpdate(st, i, onCheckbox) ==
    IF onCheckbox THEN st ELSE ToggleChecked(st, i)

\* The click handler of item i: a click outside the checkbox toggles it.
itemClick(st, i, onCheckbox) ==
    updateEquipmentSelection(IF onCheckbox THEN st ELSE ToggleChecked(st, i), i)

\* The change handler of the checkbox of item i.
checkboxChange(st, i) == updateEquipmentSelection(st, i)

\* A click on the checkbox itself: the browser toggles it, the click
\* bubbles to the item, then the change event is fired.
CheckboxClicked(st, i) ==
    checkboxChange(itemClick(ToggleChecked(st, i), i, TRUE), i)

\* What a user's click on item i does, by the element clicked.  A click on
\* the label runs the item's handler and is then forwarded by the browser
\* to the label's checkbox.
ClickItem(st, i, target) ==
    IF target = "checkbox" THEN CheckboxClicked(st, i)
    ELSE IF target = "label" THEN CheckboxClicked(itemClick(st, i, FALSE), i)
    ELSE itemClick(st, i, FALSE)

ClickTargets == {"item", "label", "checkbox"}

EquipmentClick ==
    /\ FormShown
    /\ \E i \in 1..Len(catalog), target \in ClickTargets :
          LET st == ClickItem([checked |-> checked, itemSelected |-> itemSelected,
                               selectedEquipment |-> selectedEquipment], i, target)
          IN  /\ checked' = st.checked
              /\ itemSelected' = st.itemSelected
              /\ selectedEquipment' = st.selectedEquipment
    /\ UNCHANGED <<ingredients, ingredientInput, catalog,
                   fieldVars, loadVars, viewVars, errorVars, inflight>>

---------------------------------------------------------------------------
(* The scalar fields, the payload and its validation. *)

\* The user edits the cooking-time field.
SetCookingTime(texts) ==
    /\ FormShown
    /\ \E text \in texts : cookingTime' = text
    /\ cookingTime' # cookingTime
    /\ UNCHANGED <<servings, difficulty, cuisine, mealType, dietaryRestrictions,
                   selectionVars, loadVars, viewVars, errorVars, inflight>>

\* The user edits the servings field.
SetServings(texts) ==
    /\ FormShown
    /\ \E text \in texts : servings' = text
    /\ servings' # servings
    /\ UNCHANGED <<cookingTime, difficulty, cuisine, mealType, dietaryRestrictions,
                   selectionVars, loadVars, viewVars, errorVars, inflight>>

OptionsOf(selectId) ==
    {""} \cup {selectOptions[selectId][i] : i \in 1..Len(selectOptions[selectId])}

\* The user picks a difficulty, or an option of one of the loaded selects.
ChooseOptions(difficulties) ==
    /\ FormShown
    /\ difficulty' \in difficulties
    /\ cuisine' \in OptionsOf("cuisine")
    /\ mealType' \in OptionsOf("mealType")
    /\ dietaryRestrictions' \in OptionsOf("dietaryRestrictions")
    /\ Cardinality({k \in 1..4 :
           <<difficulty', cuisine', mealType', dietaryRestrictions'>>[k]
             # <<difficulty, cuisine, mealType, dietaryRestrictions>>[k]}) = 1
    /\ UNCHANGED <<cookingTime, servings,
                   selectionVars, loadVars, viewVars, errorVars, inflight>>

\* collectFormData()
collectFormData ==
    [ingredients |-> ingredients,
     cookingTime |-> parseInt(cookingTime),
     servings |-> parseInt(servings),
     difficulty |-> difficulty,
     cuisine |-> cuisine,
     mealType |-> mealType,
     dietaryRestrictions |-> dietaryRestrictions,
     equipment |-> selectedEquipment]

\* validateForm with <= and >= for < and >: the boundary values 5, 480, 1
\* and 20 are refused.
validateFormExclusive(data) ==
    (IF Len(data.ingredients) = 0 THEN <<MsgIngredients>> ELSE <<>>)
    \o (IF ~JsGreater(data.cookingTime, 5) \/ ~JsLess(data.cookingTime, 480)
        THEN <<MsgCookingTime>> ELSE <<>>)
    \o (IF ~JsGreater(data.servings, 1) \/ ~JsLess(data.servings, 20)
        THEN <<MsgServings>> ELSE <<>>)

\* validateForm(data): the messages of the rules violated, in order.
validateForm(data) ==
    (IF Len(data.ingredients) = 0 THEN <<MsgIngredients>> ELSE <<>>)
    \o (IF JsLess(data.cookingTime, 5) \/ JsGreater(data.cookingTime, 480)
        THEN <<MsgCookingTime>> ELSE <<>>)
    \o (IF JsLess(data.servings, 1) \/ JsGreater(data.servings, 20)
        THEN <<MsgServings>> ELSE <<>>)

---------------------------------------------------------------------------
(* generateRecipe: up to the awaited request, and from its answer on. *)

\* The request fetchAPI('/api/recipes/generate', ...) sends for a payload.
Request(formData) == [payload |-> formData, beforeReset |-> FALSE]

\* generateRecipe without the `return` after showError: the invalid payload
\* is reported and sent all the same.
generateRecipeNoReturn ==
    LET formData == collectFormData
        validationErrors == validateForm(formData)
    IN  /\ BagCardinality(inflight) < MaxInFlight
        /\ setLoadingState(TRUE)
        /\ inflight' = inflight (+) SetToBag({Request(formData)})
        /\ UNCHANGED <<formDisplay, resultHidden, display>>
        /\ IF Len(validationErrors) > 0
           THEN /\ Len(hideTimers) < MaxTimers
                /\ errorText' = Join(validationErrors, ". ")
                /\ errorHidden' = TRUE
                /\ hideTimers' = Append(hideTimers, HideDelay)
           ELSE hideError

\* generateRecipe() up to `await this.fetchAPI(...)`: an invalid payload is
\* reported and nothing is sent; a valid one is sent with the button disabled.
generateRecipe ==
    LET formData == collectFormData
        validationErrors == validateForm(formData)
    IN  IF Len(validationErrors) > 0
        THEN /\ showError(Join(validationErrors, ". "))
             /\ UNCHANGED <<viewVars, inflight>>
        ELSE /\ BagCardinality(inflight) < MaxInFlight
             /\ setLoadingState(TRUE)
             /\ hideError
             /\ inflight' = inflight (+) SetToBag({Request(formData)})
             /\ UNCHANGED <<formDisplay, resultHidden, display>>

\* The form's submit event.  The browser does not submit a form through a
\* disabled submit button, nor a form the user cannot reach.
SubmitForm ==
    /\ FormShown
    /\ ~btnDisabled
    /\ generateRecipe
    /\ UNCHANGED <<selectionVars, fieldVars, loadVars>>

\* The style.display of #recipeForm, which no code assigns.
recipeFormDisplay == ""

\* keydown with Ctrl or Cmd and Enter.
CtrlEnter ==
    /\ recipeFormDisplay # "none"
    /\ generateRecipe
    /\ UNCHANGED <<selectionVars, fieldVars, loadVars>>

---------------------------------------------------------------------------
(* The recipe of an answer.  A JSON number is written as its decimal text; *)
(* a key an object does not have reads as NoValue, whose text is what a    *)
(* template literal makes of undefined.                                    *)

\* a || b on strings and missing values
Truthy(v) == v # NoValue /\ v # ""

OrElse(v, fallback) == IF Truthy(v) THEN v ELSE fallback

\* a || b and if (a) where a may be a number: 0 is falsy too.
TruthyValue(v) == Truthy(v) /\ v # "0"

ValueOrElse(v, fallback) == IF TruthyValue(v) THEN v ELSE fallback

RecipeKeys ==
    {"title", "description", "totalTime", "cookTime", "servings", "difficulty",
     "cuisine", "ingredients", "equipment", "instructions", "tips",
     "nutritionInfo", "storage", "variations"}

\* A nutritionInfo object with none of its keys.
NoNutrition ==
    [calories |-> NoValue, protein |-> NoValue, carbs |-> NoValue, fat |-> NoValue]

\* The object {}.  `has` holds the keys of the object; the value written for
\* a key outside `has` is never read.
EmptyRecipe ==
    [defined |-> TRUE, has |-> {}, title |-> "", description |-> "",
     totalTime |-> "", cookTime |-> "", servings |-> "", difficulty |-> "",
     cuisine |-> "", ingredients |-> <<>>, equipment |-> <<>>,
     instructions |-> <<>>, tips |-> <<>>, nutritionInfo |-> NoNutrition,
     storage |-> "", variations |-> <<>>]

\* response.data of a body with no data: undefined.
NoRecipe == [EmptyRecipe EXCEPT !.defined = FALSE]

\* An entry of recipe.ingredients: a string, or an object.
PlainIngredient(text) ==
    [plain |-> TRUE, text |-> text, item |-> NoValue, name |-> NoValue,
     amount |-> NoValue, unit |-> NoValue, notes |-> NoValue]

DetailedIngredient(item, name, amount, unit, notes) ==
    [plain |-> FALSE, text |-> "", item |-> item, name |-> name,
     amount |-> amount, unit |-> unit, notes |-> notes]

\* An entry of recipe.instructions: a string, or an object.
PlainInstruction(text) ==
    [plain |-> TRUE, text |-> text, instruction |-> NoValue, time |-> NoValue,
     temperature |-> NoValue]

DetailedInstruction(instruction, time, temperature) ==
    [plain |-> FALSE, text |-> "", instruction |-> instruction, time |-> time,
     temperature |-> temperature]

\* A recipe with every key.
FullRecipe ==
    [EmptyRecipe EXCEPT
        !.has = RecipeKeys,
        !.title = "Egg fried rice",
        !.description = "A quick dinner",
        !.totalTime = "45",
        !.cookTime = "30",
        !.servings = "2",
        !.difficulty = "Easy",
        !.cuisine = "Thai",
        !.ingredients = <<PlainIngredient("egg"),
                          DetailedIngredient("flour", NoValue, "2", "cups", NoValue)>>,
        !.equipment = <<"Oven">>,
        !.instructions = <<PlainInstruction("Beat the egg"),
                           DetailedInstruction("Bake", "20 min", NoValue)>>,
        !.tips = <<"Serve hot">>,
        !.nutritionInfo = [calories |-> "320", protein |-> "12g", carbs |-> "0",
                           fat |-> NoValue],
        !.storage = "Keeps two days",
        !.variations = <<"Add chili">>]

\* A recipe with cookTime and no totalTime.
CookTimeRecipe ==
    [EmptyRecipe EXCEPT
        !.has = {"title", "cookTime", "servings", "variations"},
        !.title = "Boiled egg",
        !.cookTime = "20",
        !.servings = "1",
        !.variations = <<>>]

\* A recipe with totalTime 0.
ZeroTotalRecipe ==
    [EmptyRecipe EXCEPT
        !.has = {"title", "totalTime", "cookTime"},
        !.title = "Raw egg",
        !.totalTime = "0",
        !.cookTime = "20"]

\* recipe.key
Field(recipe, key) == IF key \in recipe.has THEN recipe[key] ELSE NoValue

\* recipe.key || []
ListField(recipe, key) == IF key \in recipe.has THEN recipe[key] ELSE <<>>

---------------------------------------------------------------------------
(* The display of a recipe. *)

\* displayIngredients(ingredients): one row for each entry.
displayIngredients(list) ==
    [i \in 1..Len(list) |->
        IF list[i].plain
        THEN [text |-> list[i].text, name |-> "", notes |-> "", amount |-> ""]
        ELSE [text |-> "",
              name |-> OrElse(list[i].item, list[i].name),
              notes |-> OrElse(list[i].notes, ""),
              amount |-> ValueOrElse(list[i].amount, "") \o " "
                            \o OrElse(list[i].unit, "")]]

\* displayEquipment(equipment), displayTips(tips): one element for each entry.
displayEquipment(list) == list

displayTips(list) == list

\* displayInstructions(instructions): one row for each entry; the time and
\* temperature line only when one of the two is there.
displayInstructions(list) ==
    [i \in 1..Len(list) |->
        IF list[i].plain
        THEN [text |-> list[i].text, meta |-> FALSE, time |-> "", temperature |-> ""]
        ELSE [text |-> list[i].instruction,
              meta |-> Truthy(list[i].time) \/ Truthy(list[i].temperature),
              time |-> OrElse(list[i].time, ""),
              temperature |-> OrElse(list[i].temperature, "")]]

MsgNoNutrition == "Nutrition information not available"

\* displayNutrition(nutrition): one item for each truthy value of the four
\* keys, or the placeholder paragraph.
displayNutrition(nutrition) ==
    LET nutritionItems ==
            <<[label |-> "Calories", value |-> nutrition.calories],
              [label |-> "Protein", value |-> nutrition.protein],
              [label |-> "Carbs", value |-> nutrition.carbs],
              [label |-> "Fat", value |-> nutrition.fat]>>
        shown == SelectSeq(nutritionItems, LAMBDA item : TruthyValue(item.value))
    IN  IF shown = <<>> THEN <<[label |-> "", value |-> MsgNoNutrition]>> ELSE shown

MsgVariation ==
    "Try adding different spices or substituting ingredients to make it your own!"

\* displayVariations without the placeholder entry.
displayVariationsNoPlaceholder(variations) == variations

\* displayVariations(variations)
displayVariations(variations) ==
    IF Len(variations) = 0 THEN <<MsgVariation>> ELSE variations

\* What displayRecipe(recipe) writes into the elements of #recipeResult.
displayRecipeContent(recipe) ==
    [title |-> OrElse(Field(recipe, "title"), "Generated Recipe"),
     description |-> OrElse(Field(recipe, "description"), ""),
     totalTime |-> ValueOrElse(Field(recipe, "totalTime"), Field(recipe, "cookTime"))
                      \o " min",
     servings |-> Field(recipe, "servings") \o " servings",
     difficulty |-> OrElse(Field(recipe, "difficulty"), "Medium"),
     cuisine |-> OrElse(Field(recipe, "cuisine"), "Mixed"),
     ingredients |-> displayIngredients(ListField(recipe, "ingredients")),
     equipment |-> displayEquipment(ListField(recipe, "equipment")),
     instructions |-> displayInstructions(ListField(recipe, "instructions")),
     tips |-> displayTips(ListField(recipe, "tips")),
     nutrition |-> displayNutrition(IF "nutritionInfo" \in recipe.has
                                    THEN recipe.nutritionInfo ELSE NoNutrition),
     storage |-> OrElse(Field(recipe, "storage"), "Store in refrigerator"),
     variations |-> displayVariations(ListField(recipe, "variations"))]

---------------------------------------------------------------------------
(* The answers to a generate request. *)

MsgFetchFailed == "Failed to fetch"
MsgBadJson == "Unexpected end of JSON input"
MsgNoRecipe == "Cannot read properties of undefined (reading 'title')"
MsgQuota == "Recipe service is busy"

Answer(kind, ok, status, parsable, success, data, error) ==
    [kind |-> kind, ok |-> ok, status |-> status, parsable |-> parsable,
     success |-> success, data |-> data, error |-> error]

\* The transport fails: fetch() rejects.
NetworkFailure == Answer("network", FALSE, "0", FALSE, FALSE, NoRecipe, NoValue)
\* 200 { success: true, data: {...} }
Success == Answer("http", TRUE, "200", TRUE, TRUE, FullRecipe, NoValue)
\* 200 { success: true, data: {} }
SuccessEmpty == Answer("http", TRUE, "200", TRUE, TRUE, EmptyRecipe, NoValue)
\* 200 { success: true, data: {...} } with a recipe lacking keys
SuccessCookTime == Answer("http", TRUE, "200", TRUE, TRUE, CookTimeRecipe, NoValue)
SuccessZeroTotal == Answer("http", TRUE, "200", TRUE, TRUE, ZeroTotalRecipe, NoValue)
\* 200 { success: true } with no data
SuccessNoData == Answer("http", TRUE, "200", TRUE, TRUE, NoRecipe, NoValue)
\* 200 { success: false, error: "..." } and 200 { success: false }
Refused == Answer("http", TRUE, "200", TRUE, FALSE, NoRecipe, MsgQuota)
RefusedNoError == Answer("http", TRUE, "200", TRUE, FALSE, NoRecipe, NoValue)
\* 200 { success: false, error: "" }
RefusedEmptyError == Answer("http", TRUE, "200", TRUE, FALSE, NoRecipe, "")
\* 500 { error: "..." } and a 500 whose body is not JSON
ServerError == Answer("http", FALSE, "500", TRUE, FALSE, NoRecipe, MsgQuota)
ServerErrorNoBody == Answer("http", FALSE, "500", FALSE, FALSE, NoRecipe, NoValue)

\* One answer of every kind of outcome.
AllAnswers == {NetworkFailure, Success, SuccessNoData, Refused, RefusedNoError,
               RefusedEmptyError, ServerError, ServerErrorNoBody}

\* The successes, by the keys their recipe has.
RenderAnswers == {Success, SuccessEmpty, SuccessCookTime, SuccessZeroTotal}

\* fetchAPI without `errorData.error ||`: the body of a non-2xx response is
\* not read.
fetchAPIStatusOnly(answer) ==
    IF answer.kind = "network"
    THEN [threw |-> TRUE, message |-> MsgFetchFailed, value |-> answer]
    ELSE IF ~answer.ok
    THEN [threw |-> TRUE,
          message |-> "HTTP error! status: " \o answer.status,
          value |-> answer]
    ELSE IF ~answer.parsable
    THEN [threw |-> TRUE, message |-> MsgBadJson, value |-> answer]
    ELSE [threw |-> FALSE, message |-> "", value |-> answer]

\* fetchAPI(endpoint, options) once the transport has answered: the body
\* returned, or the Error thrown.
fetchAPI(answer) ==
    IF answer.kind = "network"
    THEN [threw |-> TRUE, message |-> MsgFetchFailed, value |-> answer]
    ELSE IF ~answer.ok
    THEN [threw |-> TRUE,
          message |-> OrElse(IF answer.parsable THEN answer.error ELSE NoValue,
                             "HTTP error! status: " \o answer.status),
          value |-> answer]
    ELSE IF ~answer.parsable
    THEN [threw |-> TRUE, message |-> MsgBadJson, value |-> answer]
    ELSE [threw |-> FALSE, message |-> "", value |-> answer]

\* displayRecipe(recipe): the form is hidden and the result shown before
\* the first key of the recipe is read, which throws when recipe is undefined.
displayRecipe(recipe) ==
    /\ formDisplay' = "none"
    /\ resultHidden' = FALSE
    /\ display' = IF recipe.defined THEN displayRecipeContent(recipe) ELSE display

\* generateRecipe from the answer on with setLoadingState(false) at the end
\* of the try block and no finally block.
generateRecipeAnsweredNoFinally(answer) ==
    LET response == fetchAPI(answer)
    IN  IF ~response.threw /\ response.value.success
        THEN /\ displayRecipe(response.value.data)
             /\ IF ~response.value.data.defined
                THEN /\ showError(OrElse(MsgNoRecipe, MsgGenerateRetry))
                     /\ UNCHANGED <<btnDisabled, btnLoading>>
                ELSE /\ UNCHANGED errorVars
                     /\ setLoadingState(FALSE)
        ELSE /\ showError(OrElse(IF response.threw THEN response.message
                                 ELSE OrElse(response.value.error, MsgGenerateFailed),
                                 MsgGenerateRetry))
             /\ UNCHANGED <<formDisplay, resultHidden, display>>
             /\ UNCHANGED <<btnDisabled, btnLoading>>

\* generateRecipe() from the answer of its request on: the try block's
\* remainder, the catch block and the finally block.
generateRecipeAnswered(answer) ==
    LET response == fetchAPI(answer)
    IN  /\ IF ~response.threw /\ response.value.success
           THEN /\ displayRecipe(response.value.data)
                /\ IF ~response.value.data.defined
                   THEN showError(OrElse(MsgNoRecipe, MsgGenerateRetry))
                   ELSE UNCHANGED errorVars
           ELSE /\ showError(OrElse(IF response.threw THEN response.message
                                    ELSE OrElse(response.value.error, MsgGenerateFailed),
                                    MsgGenerateRetry))
                /\ UNCHANGED <<formDisplay, resultHidden, display>>
        /\ setLoadingState(FALSE)

\* One of the outstanding requests is answered.
GenerateAnswered(answers) ==
    /\ \E request \in BagToSet(inflight), answer \in answers :
          /\ inflight' = inflight (-) SetToBag({request})
          /\ generateRecipeAnswered(answer)
    /\ UNCHANGED <<selectionVars, fieldVars, loadVars>>

---------------------------------------------------------------------------
(* The page-level handlers. *)

\* resetForm without `recipeGenerator.selectedEquipment = []`.
resetFormKeepsEquipment ==
    /\ formDisplay' = "block"
    /\ resultHidden' = TRUE
    /\ ingredients' = <<>>
    /\ itemSelected' = [i \in 1..Len(catalog) |-> FALSE]
    /\ checked' = [i \in 1..Len(catalog) |-> FALSE]
    /\ cookingTime' = <<"3", "0">>
    /\ servings' = <<"4">>
    /\ difficulty' = "Medium"
    /\ cuisine' = ""
    /\ mealType' = ""
    /\ dietaryRestrictions' = ""
    /\ ingredientInput' = <<>>
    /\ hideError
    /\ UNCHANGED <<selectedEquipment, catalog, loadVars, btnDisabled, btnLoading,
                   display>>

\* resetForm()
resetForm ==
    /\ formDisplay' = "block"
    /\ resultHidden' = TRUE
    /\ ingredients' = <<>>
    /\ selectedEquipment' = <<>>
    /\ itemSelected' = [i \in 1..Len(catalog) |-> FALSE]
    /\ checked' = [i \in 1..Len(catalog) |-> FALSE]
    /\ cookingTime' = <<"3", "0">>
    /\ servings' = <<"4">>
    /\ difficulty' = "Medium"
    /\ cuisine' = ""
    /\ mealType' = ""
    /\ dietaryRestrictions' = ""
    /\ ingredientInput' = <<>>
    /\ hideError
    /\ UNCHANGED <<catalog, loadVars, btnDisabled, btnLoading, display>>

\* The requests of a bag, each noted as sent before a run of resetForm.
SentBeforeReset(requests) ==
    LET noted(r) == [r EXCEPT !.beforeReset = TRUE]
        copies(r) == IF r \in DOMAIN requests THEN requests[r] ELSE 0
    IN  [r \in {noted(q) : q \in DOMAIN requests} |->
            copies(r) + copies([r EXCEPT !.beforeReset = FALSE])]

\* The result view's reset control, the Escape key and the back button:
\* each calls resetForm while the result is shown.  resetForm leaves the
\* outstanding requests outstanding.
ResetEvent ==
    /\ ~resultHidden
    /\ resetForm
    /\ inflight' = SentBeforeReset(inflight)

\* window 'online'
Online ==
    /\ hideError
    /\ UNCHANGED <<selectionVars, fieldVars, loadVars, viewVars, inflight>>

\* window 'offline'
Offline ==
    /\ showError(MsgOffline)
    /\ UNCHANGED <<selectionVars, fieldVars, loadVars, viewVars, inflight>>

---------------------------------------------------------------------------
(* What the user types. *)

\* Ingredient input texts: names, names in white space, white space only.
IngredientTexts ==
    {Egg, <<" ">> \o Egg \o <<" ">>, <<"E", "g", "g">>, Rice,
     <<"\t">> \o Rice \o <<"\n">>, <<" ", " ">>}

\* Cooking-time texts: 30, 4, 5, 480, 481, empty, abc, 12px, " 7", -5, 4.9
CookingTimeTexts ==
    {<<"3", "0">>, <<"4">>, <<"5">>, <<"4", "8", "0">>, <<"4", "8", "1">>, <<>>,
     <<"a", "b", "c">>, <<"1", "2", "p", "x">>, <<" ", "7">>, <<"-", "5">>,
     <<"4", ".", "9">>}

\* Servings texts: 4, 0, 1, 20, 21, empty, x, +2
ServingsTexts ==
    {<<"4">>, <<"0">>, <<"1">>, <<"2", "0">>, <<"2", "1">>, <<>>, <<"x">>,
     <<"+", "2">>}

\* The texts of the specifications that follow a submission to its answer.
FlowIngredientTexts == {Egg}
FlowCookingTimes == {<<"3", "0">>, <<"3">>, <<>>}
SubmitCookingTimes == {<<"3", "0">>, <<"3">>}
FlowServings == {<<"4">>, <<"2", "5">>}
Difficulties == {"Medium", "Hard"}
ResetCookingTimes == {<<"3", "0">>, <<"4", "5">>}
ResetServings == {<<"4">>, <<"2">>}

\* No generate request is outstanding.
Idle == inflight = EmptyBag

---------------------------------------------------------------------------
(* The specifications. *)

\* The submission flow: every trigger and every answer of the generate
\* request, while the option requests are still unanswered.
Next ==
    \/ TypeIngredient(FlowIngredientTexts)
    \/ AddIngredient
    \/ RemoveIngredient({})
    \/ SetCookingTime(FlowCookingTimes)
    \/ SetServings(FlowServings)
    \/ SubmitForm
    \/ CtrlEnter
    \/ GenerateAnswered(AllAnswers)
    \/ HideTimerElapses
    \/ ResetEvent
    \/ Online
    \/ Offline

Spec == Init /\ [][Next]_vars

\* The submission flow with the options loaded, and equipment selected
\* while no request is outstanding.
NextSubmit ==
    \/ LoadOptionsOk
    \/ Idle /\ EquipmentClick
    \/ TypeIngredient(FlowIngredientTexts)
    \/ AddIngredient
    \/ RemoveIngredient({Rice})
    \/ SetCookingTime(SubmitCookingTimes)
    \/ SetServings(FlowServings)
    \/ SubmitForm
    \/ CtrlEnter
    \/ GenerateAnswered({Success})
    \/ HideTimerElapses
    \/ ResetEvent

SpecSubmit == Init /\ [][NextSubmit]_vars

\* Every field and the selection edited while no request is outstanding,
\* then submitted, answered and reset.
NextReset ==
    \/ LoadOptionsOk
    \/ Idle /\ ChooseOptions(Difficulties)
    \/ Idle /\ EquipmentClick
    \/ Idle /\ TypeIngredient(FlowIngredientTexts)
    \/ Idle /\ AddIngredient
    \/ Idle /\ SetCookingTime(ResetCookingTimes)
    \/ Idle /\ SetServings(ResetServings)
    \/ SubmitForm
    \/ GenerateAnswered({Success})
    \/ Offline
    \/ HideTimerElapses
    \/ ResetEvent

SpecReset == Init /\ [][NextReset]_vars

\* The two numeric fields and the ingredient list edited, then validated.
NextForm ==
    \/ Idle /\ SetCookingTime(CookingTimeTexts)
    \/ Idle /\ SetServings(ServingsTexts)
    \/ Idle /\ TypeIngredient(FlowIngredientTexts)
    \/ Idle /\ AddIngredient
    \/ Idle /\ RemoveIngredient({})
    \/ SubmitForm
    \/ GenerateAnswered({Success})
    \/ HideTimerElapses
    \/ ResetEvent

SpecForm == Init /\ [][NextForm]_vars

\* The ingredient list, from either start of the page.
NextIngredients ==
    \/ TypeIngredient(IngredientTexts)
    \/ AddIngredient
    \/ RemoveIngredient({Egg})
    \/ SubmitForm
    \/ GenerateAnswered({Success})
    \/ HideTimerElapses
    \/ ResetEvent

SpecIngredients == (Init \/ InitDemo) /\ [][NextIngredients]_vars

\* The ingredient list and the equipment selection edited, nothing submitted.
NextSelection ==
    \/ LoadOptionsOk
    \/ EquipmentClick
    \/ TypeIngredient(IngredientTexts)
    \/ AddIngredient
    \/ RemoveIngredient({Egg})

SpecSelection == (Init \/ InitDemo) /\ [][NextSelection]_vars

\* The equipment selection toggled at any time, submitted with one
\* ingredient, answered and reset.
NextEquipment ==
    \/ LoadOptionsOk
    \/ EquipmentClick
    \/ Idle /\ TypeIngredient(FlowIngredientTexts)
    \/ Idle /\ AddIngredient
    \/ SubmitForm
    \/ GenerateAnswered({Success})
    \/ HideTimerElapses
    \/ ResetEvent

SpecEquipment == Init /\ [][NextEquipment]_vars

\* The option requests answered or failed, and the loaded controls used.
NextLoad ==
    \/ LoadOptionsOk
    \/ LoadOptionsFail
    \/ ChooseOptions(Difficulties)
    \/ EquipmentClick
    \/ HideTimerElapses
    \/ Online

SpecLoad == Init /\ [][NextLoad]_vars

\* The submission flow with the options loaded and every answer.
NextFailure ==
    \/ LoadOptionsOk
    \/ Idle /\ EquipmentClick
    \/ TypeIngredient(FlowIngredientTexts)
    \/ AddIngredient
    \/ SubmitForm
    \/ CtrlEnter
    \/ GenerateAnswered(AllAnswers)
    \/ HideTimerElapses
    \/ ResetEvent

SpecFailure == Init /\ [][NextFailure]_vars

\* The error banner in time: errors shown by the offline event, by a
\* refused payload and by a failed request, hidden by the timers, by a valid
\* submission, by a reset and by the online event.
NextTimers ==
    \/ TypeIngredient(FlowIngredientTexts)
    \/ AddIngredient
    \/ SubmitForm
    \/ GenerateAnswered({Success, Refused})
    \/ ResetEvent
    \/ Offline
    \/ Online
    \/ Tick
    \/ HideTimerFires

\* Time passes, and a due timer's callback is run.
FairTimers == WF_vars(Tick) /\ WF_vars(HideTimerFires)

SpecTimers == Init /\ [][NextTimers]_vars /\ FairTimers

\* Submissions answered by recipes with all, some and none of the keys.
NextRender ==
    \/ TypeIngredient(FlowIngredientTexts)
    \/ AddIngredient
    \/ SubmitForm
    \/ GenerateAnswered(RenderAnswers)
    \/ HideTimerElapses
    \/ ResetEvent

SpecRender == Init /\ [][NextRender]_vars

---------------------------------------------------------------------------
(* The claims. *)

\* A step in which generateRecipe() is called, by either trigger.
GenerateCalled == SubmitForm \/ CtrlEnter

\* C1: at most one generate request is outstanding at any time; a submit
\* invoked while an earlier request is unanswered sends no second request.
C1_AtMostOneOutstanding == BagCardinality(inflight) <= 1

\* C2: whenever a generate request is outstanding, the submit button is
\* disabled.
C2_DisabledWhileOutstanding == inflight # EmptyBag => btnDisabled

\* C3: when the cooking-time or the servings text does not parse as an
\* integer, validateForm reports that field's range error, and a call of
\* generateRecipe sends no request.
C3_UnparsableRejected ==
    [][GenerateCalled =>
          LET data == collectFormData
              errors == validateForm(data)
          IN  /\ data.cookingTime.nan =>
                    Includes(errors, MsgCookingTime) /\ inflight' = inflight
              /\ data.servings.nan =>
                    Includes(errors, MsgServings) /\ inflight' = inflight]_vars

\* The rule of each validation message, on the page's current payload with
\* integer cookingTime and servings.
RuleViolated(message) ==
    IF message = MsgIngredients THEN ingredients = <<>>
    ELSE IF message = MsgCookingTime
    THEN ~(5 <= parseInt(cookingTime).val /\ parseInt(cookingTime).val <= 480)
    ELSE ~(1 <= parseInt(servings).val /\ parseInt(servings).val <= 20)

\* The messages of the violated rules, in the order ingredients, cooking
\* time, servings.
ViolatedMessages ==
    SelectSeq(<<MsgIngredients, MsgCookingTime, MsgServings>>, RuleViolated)

\* C4: for a payload with integer cookingTime and servings, validateForm
\* returns exactly the messages of the violated rules, each rule evaluated
\* on its own, in the order ingredients, cooking time, servings; the result
\* is empty iff all three rules hold.
C4_ValidateReportsViolatedRules ==
    LET data == collectFormData
    IN  (~data.cookingTime.nan /\ ~data.servings.nan) =>
            validateForm(data) = ViolatedMessages

\* An ingredient, 4 minutes and 21 servings: exactly the two range errors.
C4_Witness ==
    /\ ingredients # <<>>
    /\ parseInt(cookingTime) = Num(4)
    /\ parseInt(servings) = Num(21)
    /\ validateForm(collectFormData) = <<MsgCookingTime, MsgServings>>

\* The text of one error message holding the violated rules' messages.
ViolatedText ==
    LET ms == ViolatedMessages
    IN  IF Len(ms) = 1 THEN ms[1]
        ELSE IF Len(ms) = 2 THEN ms[1] \o ". " \o ms[2]
        ELSE ms[1] \o ". " \o ms[2] \o ". " \o ms[3]

\* C5: a generate request is sent only when validateForm returned no error
\* for the payload built at that call; when it returns an error,
\* generateRecipe sends nothing, leaves the button, the view, the
\* ingredient list and the equipment selection as they are, and shows one
\* error message holding every validation message.
C5_InvalidPayloadNotSent ==
    [][LET invalid == validateForm(collectFormData) # <<>>
       IN  /\ (BagCardinality(inflight') > BagCardinality(inflight)) => ~invalid
           /\ (GenerateCalled /\ invalid) =>
                 /\ inflight' = inflight
                 /\ UNCHANGED <<btnDisabled, btnLoading, formDisplay, resultHidden>>
                 /\ UNCHANGED <<ingredients, selectedEquipment, checked>>
                 /\ ~errorHidden'
                 /\ (~parseInt(cookingTime).nan /\ ~parseInt(servings).nan
                        => errorText' = ViolatedText)]_vars

\* An invalid payload (3 minutes, 25 servings) was refused with the form
\* shown, the button enabled, nothing sent, and equipment selected.
C5_Witness ==
    /\ ~errorHidden
    /\ errorText = MsgCookingTime \o ". " \o MsgServings
    /\ parseInt(cookingTime) = Num(3)
    /\ parseInt(servings) = Num(25)
    /\ ~btnDisabled
    /\ FormShown
    /\ inflight = EmptyBag
    /\ ingredients # <<>>
    /\ selectedEquipment # <<>>

\* The entries of a list.
Entries(list) == {list[i] : i \in 1..Len(list)}

\* A text with nothing but white space in it.
IsBlank(text) == \A k \in 1..Len(text) : IsWhitespace(text[k])

\* C6: the ingredient list holds no two equal entries and no empty or
\* white-space-only entry, whatever was added, removed or reset, from either
\* start of the page.
C6_IngredientsDistinctNonBlank ==
    /\ \A i, j \in 1..Len(ingredients) : i # j => ingredients[i] # ingredients[j]
    /\ \A i \in 1..Len(ingredients) : ~IsBlank(ingredients[i])

\* egg, Egg and rice are three entries: equality is case-sensitive.
C6_Witness ==
    /\ Len(ingredients) = 3
    /\ Entries(ingredients) = {Egg, <<"E", "g", "g">>, Rice}

\* C7: addIngredient with a trimmed name absent from the list appends it as
\* the last element and leaves the earlier elements as they are; with a name
\* already present, or empty after trimming, it leaves the list unchanged.
C7_AddAppendsOrKeeps ==
    [][AddIngredient =>
          LET name == Trim(ingredientInput)
          IN  IF ~IsBlank(ingredientInput) /\ name \notin Entries(ingredients)
              THEN /\ Len(ingredients') = Len(ingredients) + 1
                   /\ ingredients'[Len(ingredients')] = name
                   /\ SubSeq(ingredients', 1, Len(ingredients)) = ingredients
              ELSE ingredients' = ingredients]_vars

\* " egg " is typed while egg is the first of two entries: adding it again
\* would leave the one occurrence where it is.
C7_Witness ==
    /\ ingredients = <<Egg, Rice>>
    /\ ingredientInput = <<" ">> \o Egg \o <<" ">>

\* C8: removeIngredient(x) leaves the list without its entries equal to x,
\* the others in their order; with x absent the list is unchanged; the
\* equipment selection is unchanged either way.
C8_RemoveDeletesOnlyThat ==
    [][\A x \in {Egg} \cup Entries(ingredients) :
          (RemoveIngredient({Egg}) /\ removeIngredient(x)) =>
              /\ Len(ingredients') = Cardinality(Entries(ingredients) \ {x})
              /\ \A i \in 1..Len(ingredients') : ingredients'[i] # x
              /\ \A i, j \in 1..Len(ingredients) :
                    (i < j /\ ingredients[i] # x /\ ingredients[j] # x) =>
                       \E k, l \in 1..Len(ingredients') :
                          /\ k < l
                          /\ ingredients'[k] = ingredients[i]
                          /\ ingredients'[l] = ingredients[j]
              /\ (x \notin Entries(ingredients) => ingredients' = ingredients)
              /\ UNCHANGED <<selectedEquipment, checked, itemSelected>>]_vars

\* The middle sample ingredient was removed, with equipment selected.
C8_Witness ==
    /\ ingredients = <<ChickenBreast, Broccoli>>
    /\ selectedEquipment # <<>>

\* C9: the equipment selection holds only names of the catalog served by
\* GET /api/recipes/equipment, each at most once, after any toggles and resets.
C9_SelectionWithinCatalog ==
    /\ Entries(selectedEquipment) \subseteq Entries(EquipmentData)
    /\ Cardinality(Entries(selectedEquipment)) = Len(selectedEquipment)

\* Both names selected, the second of the catalog first.
C9_Witness ==
    /\ selectedEquipment = <<EquipmentData[2], EquipmentData[1]>>
    /\ checked = <<TRUE, TRUE>>

\* The view is the result: the form container hidden, the result shown.
ViewResult == ~resultHidden /\ formDisplay = "none"

\* The view is the form: the form container shown, the result hidden.
ViewForm == resultHidden /\ formDisplay # "none"

\* C10: after a generate request succeeded and the recipe is shown,
\* resetForm leaves the ingredient list empty, the equipment selection empty
\* with every checkbox unchecked, the scalar fields at their defaults, the
\* error hidden and the view in Form.
C10_ResetRestoresForm ==
    [][(ViewResult /\ ResetEvent) =>
          /\ ingredients' = <<>>
          /\ selectedEquipment' = <<>>
          /\ \A i \in 1..Len(catalog') : ~checked'[i]
          /\ Len(checked') = Len(catalog')
          /\ parseInt(cookingTime') = Num(30)
          /\ parseInt(servings') = Num(4)
          /\ difficulty' = "Medium"
          /\ cuisine' = ""
          /\ mealType' = ""
          /\ dietaryRestrictions' = ""
          /\ errorHidden'
          /\ ViewForm']_vars

\* The form as a reset leaves it (only resetForm sets display 'block'),
\* with the catalog loaded.
C10_Witness ==
    /\ formDisplay = "block"
    /\ ViewForm
    /\ catalog = EquipmentData
    /\ ingredients = <<>>
    /\ selectedEquipment = <<>>
    /\ errorHidden
    /\ errorText = MsgOffline

\* The controls that loadDropdownOptions populates and that hold no option.
EmptyControls ==
    {id \in {"cuisine", "mealType", "dietaryRestrictions"} : selectOptions[id] = <<>>}
    \cup (IF catalog = <<>> THEN {"equipmentGrid"} ELSE {})

\* C11: when one of the four option requests fails, the other three lists
\* are still loaded and populated: once loadDropdownOptions has ended, no
\* more than the one control whose request failed is empty.
C11_OtherListsLoaded ==
    loadPc \in {"done", "failed"} => Cardinality(EmptyControls) <= 1

\* The answer is a failure: the transport failed, the status is not 2xx,
\* or the body says success false.
IsFailure(answer) ==
    answer.kind = "network" \/ ~answer.ok \/ (answer.parsable /\ ~answer.success)

\* The body of the answer carries an error text.
ServerSuppliedError(answer) ==
    answer.kind = "http" /\ answer.parsable /\ answer.error \notin {NoValue, ""}

\* The texts shown when the server supplied none.
GenericFallbacks ==
    {MsgGenerateFailed, MsgGenerateRetry, MsgFetchFailed, "HTTP error! status: 500"}

\* C12: when a generate request fails, no recipe is rendered and the view
\* stays as it is (in Form when it was in Form), one error message is shown
\* whose text is the server-supplied error when there is one and a generic
\* fallback otherwise, the ingredient list and the equipment selection are
\* unchanged, and no request is sent again.
C12_FailureShowsOneError ==
    [][\A answer \in {a \in AllAnswers : IsFailure(a)} :
          GenerateAnswered({answer}) =>
              /\ UNCHANGED <<formDisplay, resultHidden, display>>
              /\ ViewForm => ViewForm'
              /\ ~errorHidden'
              /\ IF ServerSuppliedError(answer)
                 THEN errorText' = answer.error
                 ELSE errorText' \in GenericFallbacks
              /\ UNCHANGED <<ingredients, selectedEquipment, checked>>
              /\ BagCardinality(inflight') = BagCardinality(inflight) - 1]_vars

\* The server's error text is shown in the form view, with the ingredient
\* and the selected equipment still there and nothing outstanding.
C12_Witness ==
    /\ ~errorHidden
    /\ errorText = MsgQuota
    /\ ViewForm
    /\ ingredients = <<Egg>>
    /\ selectedEquipment # <<>>
    /\ inflight = EmptyBag
    /\ ~btnDisabled

\* C13: an error shown is hidden without any user action, no later than
\* HideDelay time units after the most recent showError: while the error is
\* visible the timer of the most recent showError is pending (time does not
\* pass a due timer), and a visible error is eventually hidden.
C13_ErrorHiddenInTime ==
    /\ [](~errorHidden =>
             /\ hideTimers # <<>>
             /\ hideTimers[Len(hideTimers)] \in 0..HideDelay)
    /\ (~errorHidden ~> errorHidden)

\* An error shown HideDelay units ago, its timer due.
C13_Witness ==
    /\ ~errorHidden
    /\ hideTimers = <<0>>

\* C19: a timer started by an earlier showError does not hide the error of
\* a later showError: a timer's callback that hides a visible error runs
\* when the most recent showError is HideDelay time units old.
C19_OwnFullTimeout ==
    [][(HideTimerFires /\ ~errorHidden) => hideTimers[Len(hideTimers)] = 0]_vars

\* C14: displaying the recipe {} completes (the result is shown, no error
\* is raised, the button is enabled again) and shows difficulty 'Medium',
\* cuisine 'Mixed', storage 'Store in refrigerator', one placeholder
\* variation, the one nutrition placeholder, and empty ingredient,
\* equipment, instruction and tip lists.
C14_EmptyRecipeDefaults ==
    [][GenerateAnswered({SuccessEmpty}) =>
          /\ ViewResult'
          /\ UNCHANGED errorVars
          /\ ~btnDisabled'
          /\ display'.difficulty = "Medium"
          /\ display'.cuisine = "Mixed"
          /\ display'.storage = "Store in refrigerator"
          /\ display'.variations = <<MsgVariation>>
          /\ display'.nutrition = <<[label |-> "", value |-> MsgNoNutrition]>>
          /\ display'.ingredients = <<>>
          /\ display'.equipment = <<>>
          /\ display'.instructions = <<>>
          /\ display'.tips = <<>>]_vars

\* The recipe {} is on display (only it gets the default title with the
\* default cuisine), with no error shown.
C14_Witness ==
    /\ ViewResult
    /\ display.title = "Generated Recipe"
    /\ display.cuisine = "Mixed"
    /\ display.variations = <<MsgVariation>>
    /\ errorHidden
    /\ inflight = EmptyBag

\* The total-time texts that display the recipe's value: totalTime when the
\* recipe has it, else cookTime when it has that, else nothing (with or
\* without the unit).
TotalTimeTexts(recipe) ==
    IF "totalTime" \in recipe.has THEN {recipe.totalTime \o " min"}
    ELSE IF "cookTime" \in recipe.has THEN {recipe.cookTime \o " min"}
    ELSE {"", " min"}

\* C15: the total time displayed is the recipe's totalTime when present,
\* otherwise its cookTime when present, and empty when neither is present.
C15_TotalTimeDisplayed ==
    [][\A answer \in RenderAnswers :
          GenerateAnswered({answer}) =>
              display'.totalTime \in TotalTimeTexts(answer.data)]_vars

\* The number of entries of the selection equal to name.
Occurrences(selection, name) ==
    Cardinality({k \in 1..Len(selection) : selection[k] = name})

\* C16: a catalog name is in selectedEquipment iff its checkbox is checked,
\* after any toggles and resets; a click that leaves a checkbox checked has
\* its name in the selection once, one that leaves it unchecked has removed
\* the name, and the membership of every name whose checkbox the click did
\* not change is unchanged.
C16_SelectionMirrorsCheckboxes ==
    /\ [](/\ Len(checked) = Len(catalog)
          /\ \A i \in 1..Len(catalog) :
                Includes(selectedEquipment, catalog[i]) <=> checked[i])
    /\ [][EquipmentClick =>
             \A i \in 1..Len(catalog) :
                /\ (checked'[i] /\ ~checked[i]) =>
                       Occurrences(selectedEquipment', catalog[i]) = 1
                /\ (~checked'[i] /\ checked[i]) =>
                       Occurrences(selectedEquipment', catalog[i]) = 0
                /\ (checked'[i] = checked[i]) =>
                       Occurrences(selectedEquipment', catalog[i])
                          = Occurrences(selectedEquipment, catalog[i])]_vars

\* After a reset (only resetForm sets display 'block') and further clicks,
\* the first name of the catalog is selected and the second is not.
C16_Witness ==
    /\ formDisplay = "block"
    /\ checked = <<TRUE, FALSE>>
    /\ itemSelected = <<TRUE, FALSE>>
    /\ selectedEquipment = <<EquipmentData[1]>>
    /\ ingredients # <<>>

\* C17: the processing of every outcome of a generate request (a success,
\* a service error, a transport failure) leaves the submit button enabled
\* and not loading, and whenever every request sent has been answered the
\* button is enabled and not loading.
C17_OutcomeEndsSubmitting ==
    /\ [][GenerateAnswered(AllAnswers) => (~btnDisabled' /\ ~btnLoading')]_vars
    /\ [](inflight = EmptyBag => (~btnDisabled /\ ~btnLoading))

\* A transport failure was processed: its error is shown in the form view
\* and the button is enabled again.
C17_Witness ==
    /\ ~errorHidden
    /\ errorText = MsgFetchFailed
    /\ ViewForm
    /\ inflight = EmptyBag
    /\ ~btnDisabled
    /\ ~btnLoading

\* C18: the view enters Result only through the success of a submission
\* made since the last reset: a step that takes the view from Form to
\* Result is the answer to a request sent after the last run of resetForm,
\* and the answer to a request sent before it leaves the view as it is.
C18_ResultOnlyFromCurrentSubmission ==
    [][/\ (ViewForm /\ ViewResult') =>
              \E request \in BagToSet(inflight) :
                 /\ ~request.beforeReset
                 /\ inflight' = inflight (-) SetToBag({request})
       /\ \A request \in BagToSet(inflight) :
              (request.beforeReset /\ inflight' = inflight (-) SetToBag({request}))
                 => UNCHANGED <<formDisplay, resultHidden>>]_vars

=============================================================================
